---- MODULE Spec2Model ----
(***************************************************************************)
(* Model of package ants, client.go and linker.go: the Client's address    *)
(* resolution (Linker), its session pool (cliSessPool) and the dispatch of *)
(* Pull / Push / AsyncPull.  Goroutines calling into Clients are the       *)
(* processes of Procs; every access to state shared between goroutines     *)
(* (c.linker, c.cliSessPool, the done channel) is one atomic step.         *)
(***************************************************************************)
EXTENDS Integers, Sequences, FiniteSets, TLC

\* ------------------------------------------------------------------ bounds
MaxCalls == 2
MaxChanCap == 1

\* the goroutines that call into the clients, and the Client objects
Procs == {1, 2}
Clients == {1, 2}

\* ------------------------------------------------------------------ values
Nil == "nil"
NoRoute == "NoRoute"
Timeout == "Timeout"
AddrA == "A"
AddrB == "B"
Addrs == {AddrA, AddrB}

\* uris are sequences of one-character strings
URIs == { <<"/", "a">>,
          <<"/", "b", "?", "a", "?", "b">>,
          <<"?", "a">> }

\* CliConfig, its fields RedialTimes, SessMaxQuota and SessMaxIdleDuration
\* (durations counted in minutes): the zero value CliConfig{}
ZeroCfg == [RedialTimes |-> 0, SessMaxQuota |-> 0, SessMaxIdleDuration |-> 0]

\* the configurations handed to NewClient
CfgInputs ==
    [RedialTimes : {-1, 2}, SessMaxQuota : {-1, 0, 5},
     SessMaxIdleDuration : {-2, 0, 7}]

DefaultSessMaxQuota == 100
DefaultSessMaxIdleMinutes == 3

\* ------------------------------------------------------------------ state
VARIABLES
    newCfg,        \* newCfg[c]: NewClient's parameter cfg as passed (arg) and
                   \* after cfg.check() (cfg), and what check returned (err)
    serial,        \* whether the callers wait for a call to return before
                   \* they issue the next one
    lastSet,       \* history: the argument of the last SetLinker(c, ...)
    live,          \* the Clients NewClient has constructed
    linker,        \* linker[c]: Client.linker
    protoFunc,     \* protoFunc[c]: Client.protoFunc
    cliSessPool,   \* cliSessPool[c]: Client.cliSessPool, a map addr -> session
    sessCfg,       \* sessCfg[c]: Client.sessMaxQuota / sessMaxIdleDuration
    heap,          \* every CliSession constructed so far
    pc,            \* pc[p]: where goroutine p is inside its call
    call,          \* call[p]: the arguments of p's current call
    path,          \* path[p]: the argument p handed to linker.Select
    addr,          \* addr[p]: local addr of getCliSession
    rerr,          \* rerr[p]: local rerr of getCliSession
    cliSess,       \* cliSess[p]: the session getCliSession returned
    result,        \* result[p]: what the call returned to its caller
    done,          \* done[p]: the channel p passed to AsyncPull
    trace,         \* trace[p]: what p's current call has done (history)
    stored,        \* history: [client, addr] of every Store
    ncalls         \* number of calls issued so far

vars == << newCfg, serial, lastSet, live, linker, protoFunc, cliSessPool, sessCfg, heap, pc, call, path,
           addr, rerr, cliSess, result, done, trace, stored, ncalls >>

\* ------------------------------------------------------------------ CliConfig
\* check defaulting the negative values only
checkNegativeOnly(cfg) ==
    [ cfg |-> [cfg EXCEPT
                 !.SessMaxQuota =
                     IF cfg.SessMaxQuota < 0 THEN DefaultSessMaxQuota ELSE @,
                 !.SessMaxIdleDuration =
                     IF cfg.SessMaxIdleDuration < 0
                     THEN DefaultSessMaxIdleMinutes ELSE @],
      err |-> Nil ]

\* check putting the defaults in whatever the configuration says
checkAlwaysDefault(cfg) ==
    [ cfg |-> [cfg EXCEPT !.SessMaxQuota = DefaultSessMaxQuota,
                          !.SessMaxIdleDuration = DefaultSessMaxIdleMinutes],
      err |-> Nil ]

\* CliConfig.check: the receiver after the call (cfg) and the error returned
check(cfg) ==
    [ cfg |-> [cfg EXCEPT
                 !.SessMaxQuota =
                     IF cfg.SessMaxQuota <= 0 THEN DefaultSessMaxQuota ELSE @,
                 !.SessMaxIdleDuration =
                     IF cfg.SessMaxIdleDuration <= 0
                     THEN DefaultSessMaxIdleMinutes ELSE @],
      err |-> Nil ]

\* ------------------------------------------------------------------ Linker
\* NewStaticLinker(srvAddr)
NewStaticLinker(srvAddr) == [type |-> "staticLinker", srvAddr |-> srvAddr]

\* the zero value of the interface field Client.linker
NilLinker == [type |-> Nil]

\* Other implementations of the Linker interface: one that never finds a
\* route and one that routes by path.
ErrLinker == [type |-> "errLinker"]
PathLinker == [type |-> "pathLinker"]

Linkers == {NewStaticLinker(AddrA), ErrLinker, PathLinker}

\* staticLinker.Select refusing the empty path
StaticSelectNonEmpty(l, uriPath) ==
    IF uriPath = << >> THEN [addr |-> "", rerr |-> NoRoute]
    ELSE [addr |-> l.srvAddr, rerr |-> Nil]

\* staticLinker.Select
StaticSelect(l, uriPath) == [addr |-> l.srvAddr, rerr |-> Nil]

\* Linker.Select, by the dynamic type of the receiver
Select(l, uriPath) ==
    CASE l.type = "staticLinker" -> StaticSelect(l, uriPath)
      [] l.type = "errLinker"    -> [addr |-> "", rerr |-> NoRoute]
      [] l.type = "pathLinker"   ->
            IF uriPath = <<"/", "a">> THEN [addr |-> AddrA, rerr |-> Nil]
            ELSE IF uriPath = <<"/", "b">> THEN [addr |-> AddrB, rerr |-> Nil]
            ELSE [addr |-> "", rerr |-> NoRoute]

\* ------------------------------------------------------------------ strings
\* strings.Index(s, ch) for a one-character ch: 0-based, -1 when absent
Index(s, ch) ==
    IF \E i \in 1..Len(s) : s[i] = ch
    THEN (CHOOSE i \in 1..Len(s) :
              s[i] = ch /\ \A j \in 1..(i - 1) : s[j] # ch) - 1
    ELSE -1

\* strings.LastIndex(s, ch) for a one-character ch
LastIndex(s, ch) ==
    IF \E i \in 1..Len(s) : s[i] = ch
    THEN (CHOOSE i \in 1..Len(s) :
              s[i] = ch /\ \A j \in (i + 1)..Len(s) : s[j] # ch) - 1
    ELSE -1

\* StripQuery cutting at the last "?" instead of the first
StripQueryAtLast(uri) ==
    LET idx == LastIndex(uri, "?")
    IN  IF idx # -1 THEN SubSeq(uri, 1, idx) ELSE uri

\* getCliSession, lines 162-164: uri = uri[:idx]
StripQuery(uri) ==
    LET idx == Index(uri, "?")
    IN  IF idx # -1 THEN SubSeq(uri, 1, idx) ELSE uri

\* ------------------------------------------------------------------ goutil.Map
\* goutil.AtomicMap()
AtomicMap == << >>

NoSess == [peer |-> 0, addr |-> "", sessMaxQuota |-> 0,
           sessMaxIdleDuration |-> 0, serial |-> 0]

\* Load that never finds the key
LoadMiss(m, key) == [value |-> NoSess, ok |-> FALSE]

\* Map.Load(key): (value, ok)
Load(m, key) ==
    IF key \in DOMAIN m THEN [value |-> m[key], ok |-> TRUE]
    ELSE [value |-> NoSess, ok |-> FALSE]

\* Store that forgets the other keys of the map
StoreAlone(m, key, value) == [k \in {key} |-> value]

\* Map.Store(key, value)
Store(m, key, value) ==
    [k \in (DOMAIN m) \cup {key} |-> IF k = key THEN value ELSE m[k]]

\* ------------------------------------------------------------------ CliSession
\* New binding every session to one fixed address
NewBoundElsewhere(peer, a, quota, idle) ==
    [peer |-> peer, addr |-> "A", sessMaxQuota |-> quota,
     sessMaxIdleDuration |-> idle,
     serial |-> Cardinality({s \in heap : s.peer = peer /\ s.addr = "A"}) + 1]

\* cliSession.New(peer, addr, sessMaxQuota, sessMaxIdleDuration): a new object,
\* told apart from the earlier sessions of the same peer and address by serial
New(peer, a, quota, idle) ==
    [peer |-> peer, addr |-> a, sessMaxQuota |-> quota,
     sessMaxIdleDuration |-> idle,
     serial |-> Cardinality({s \in heap : s.peer = peer /\ s.addr = a}) + 1]

\* the results a CliSession may give back for a call
SessRerrs == {Nil, Timeout}

\* cliSession.NewFakePullCmd(c.peer, uri, args, reply, rerr, setting...)
NewFakePullCmd(peer, uri, e) ==
    [type |-> "FakePullCmd", peer |-> peer, sess |-> NoSess, uri |-> uri,
     rerr |-> e]

\* ------------------------------------------------------------------ channels
\* a channel: capacity, buffered items, and whether a receiver is parked on it
\* and what receivers have taken from it since the call began
NoChan == [cap |-> 0, buf |-> << >>, recv |-> FALSE, got |-> << >>]

\* a command already queued on a caller's channel by some earlier call
OtherCmd == [type |-> "PullCmd", peer |-> 0, sess |-> NoSess, uri |-> << >>,
             rerr |-> Nil]

\* the channels a caller may pass as done: unbuffered, or buffered and either
\* empty or already full
DoneChans ==
    { [NoChan EXCEPT !.cap = n] : n \in 0..MaxChanCap } \cup
    { [NoChan EXCEPT !.cap = n, !.buf = [i \in 1..n |-> OtherCmd]] :
          n \in 1..MaxChanCap }

\* whether ch <- v can proceed
CanSend(ch) == Len(ch.buf) < ch.cap \/ ch.recv

\* ch <- v : a parked receiver takes the value directly, else it is buffered
Send(ch, v) ==
    IF ch.recv THEN [ch EXCEPT !.recv = FALSE, !.got = Append(@, v)]
    ELSE [ch EXCEPT !.buf = Append(@, v)]

\* ------------------------------------------------------------------ Init
NoCall == [client |-> 0, kind |-> Nil, uri |-> << >>]
NoResult == [type |-> Nil, peer |-> 0, sess |-> NoSess, uri |-> << >>,
             rerr |-> Nil]
\* opUri: the uri handed to the CliSession operation
NoTrace == [selects |-> 0, news |-> 0, stores |-> 0, sessOps |-> 0, sends |-> 0,
            opUri |-> << >>]

\* NewClient(cfg), lines 93-114
NewClient(cfg) ==
    LET checked == check(cfg)
    IN  [ checked |-> [arg |-> cfg, cfg |-> checked.cfg, err |-> checked.err],
          linker |-> NilLinker,
          protoFunc |-> "DefaultProtoFunc",
          cliSessPool |-> AtomicMap,
          sessCfg |-> [SessMaxQuota |-> checked.cfg.SessMaxQuota,
                       SessMaxIdleDuration |->
                           checked.cfg.SessMaxIdleDuration] ]

\* the state after NewClient(cfgs[c]) for every client c of the set cs
Constructed(cs, cfgs) ==
    /\ live = cs
    /\ newCfg = [c \in Clients |-> NewClient(cfgs[c]).checked]
    /\ lastSet = [c \in Clients |-> NewClient(cfgs[c]).linker]
    /\ linker = [c \in Clients |-> NewClient(cfgs[c]).linker]
    /\ protoFunc = [c \in Clients |-> NewClient(cfgs[c]).protoFunc]
    /\ cliSessPool = [c \in Clients |-> NewClient(cfgs[c]).cliSessPool]
    /\ sessCfg = [c \in Clients |-> NewClient(cfgs[c]).sessCfg]

\* no goroutine has called yet
Quiet ==
    /\ heap = {}
    /\ pc = [p \in Procs |-> "idle"]
    /\ call = [p \in Procs |-> NoCall]
    /\ path = [p \in Procs |-> << >>]
    /\ addr = [p \in Procs |-> ""]
    /\ rerr = [p \in Procs |-> Nil]
    /\ cliSess = [p \in Procs |-> NoSess]
    /\ result = [p \in Procs |-> NoResult]
    /\ done = [p \in Procs |-> NoChan]
    /\ trace = [p \in Procs |-> NoTrace]
    /\ stored = {}
    /\ ncalls = 0

\* one Client, constructed by NewClient(CliConfig{})
Init ==
    /\ Constructed({1}, [c \in Clients |-> ZeroCfg])
    /\ Quiet
    /\ serial = FALSE

\* ------------------------------------------------------------------ actions
\* an unrecovered panic ends the program
Crashed == \E p \in Procs : pc[p] = "panicked"

\* entry of a call up to the return of c.linker.Select: getCliSession,
\* lines 162-168 (strip the query, then Select)
Enter(p, c, kind, uri, ch) ==
    /\ ~Crashed
    /\ pc[p] = "idle"
    /\ serial => \A q \in Procs : pc[q] = "idle"
    /\ ncalls < MaxCalls
    /\ ncalls' = ncalls + 1
    /\ call' = [call EXCEPT ![p] = [client |-> c, kind |-> kind, uri |-> uri]]
    /\ done' = [done EXCEPT ![p] = ch]
    /\ LET arg == StripQuery(uri)
       IN  /\ path' = [path EXCEPT ![p] = arg]
           /\ IF linker[c] = NilLinker
              THEN \* method call on a nil interface value
                   /\ pc' = [pc EXCEPT ![p] = "panicked"]
                   /\ UNCHANGED << addr, rerr, trace >>
              ELSE LET r == Select(linker[c], arg)
                   IN  /\ addr' = [addr EXCEPT ![p] = r.addr]
                       /\ rerr' = [rerr EXCEPT ![p] = r.rerr]
                       /\ trace' = [trace EXCEPT ![p].selects = @ + 1]
                       /\ pc' = [pc EXCEPT ![p] =
                                   IF r.rerr # Nil THEN "rerr" ELSE "load"]
    /\ UNCHANGED << newCfg, serial, lastSet, live, linker, protoFunc, cliSessPool, sessCfg, heap,
                    cliSess, result, stored >>

\* a goroutine calls c.Pull(uri, ...), lines 141-142
CallPull(p) == \E c \in live, uri \in URIs : Enter(p, c, "Pull", uri, NoChan)

\* a goroutine calls c.Push(uri, ...), lines 153-154
CallPush(p) == \E c \in live, uri \in URIs : Enter(p, c, "Push", uri, NoChan)

\* a goroutine calls c.AsyncPull(uri, ..., done, ...), lines 128-129
CallAsyncPull(p) ==
    \E c \in live, uri \in URIs, ch \in DoneChans :
        Enter(p, c, "AsyncPull", uri, ch)

\* getCliSession, lines 169-172: c.cliSessPool.Load(addr)
GetCliSessionLoad(p) ==
    /\ ~Crashed
    /\ pc[p] = "load"
    /\ LET l == Load(cliSessPool[call[p].client], addr[p])
       IN  IF l.ok
           THEN /\ cliSess' = [cliSess EXCEPT ![p] = l.value]
                /\ pc' = [pc EXCEPT ![p] = "got"]
           ELSE /\ pc' = [pc EXCEPT ![p] = "new"]
                /\ UNCHANGED cliSess
    /\ UNCHANGED << newCfg, serial, lastSet, live, linker, protoFunc, cliSessPool, sessCfg, heap, call,
                    path, addr, rerr, result, done, trace, stored, ncalls >>

\* GetCliSessionStore keeping every session in one pool shared by all Clients
GetCliSessionStoreShared(p) ==
    /\ ~Crashed
    /\ pc[p] = "new"
    /\ LET c == call[p].client
           s == New(c, addr[p], sessCfg[c].SessMaxQuota,
                    sessCfg[c].SessMaxIdleDuration)
       IN  /\ heap' = heap \cup {s}
           /\ cliSess' = [cliSess EXCEPT ![p] = s]
           /\ cliSessPool' = [cliSessPool EXCEPT ![1] = Store(@, addr[p], s)]
           /\ stored' = stored \cup {[client |-> c, addr |-> addr[p]]}
    /\ trace' = [trace EXCEPT ![p].news = @ + 1, ![p].stores = @ + 1]
    /\ pc' = [pc EXCEPT ![p] = "got"]
    /\ UNCHANGED << newCfg, serial, lastSet, live, linker, protoFunc, sessCfg, call, path, addr, rerr,
                    result, done, ncalls >>

\* getCliSession, lines 173-180: cliSession.New(...), then
\* c.cliSessPool.Store(addr, cliSess)
GetCliSessionStore(p) ==
    /\ ~Crashed
    /\ pc[p] = "new"
    /\ LET c == call[p].client
           s == New(c, addr[p], sessCfg[c].SessMaxQuota,
                    sessCfg[c].SessMaxIdleDuration)
       IN  /\ heap' = heap \cup {s}
           /\ cliSess' = [cliSess EXCEPT ![p] = s]
           /\ cliSessPool' = [cliSessPool EXCEPT ![c] = Store(@, addr[p], s)]
           /\ stored' = stored \cup {[client |-> c, addr |-> addr[p]]}
    /\ trace' = [trace EXCEPT ![p].news = @ + 1, ![p].stores = @ + 1]
    /\ pc' = [pc EXCEPT ![p] = "got"]
    /\ UNCHANGED << newCfg, serial, lastSet, live, linker, protoFunc, sessCfg, call, path, addr, rerr,
                    result, done, ncalls >>

\* Delegate handing the CliSession the uri without its query
DelegateStripped(p, kind) ==
    /\ ~Crashed
    /\ pc[p] = "got"
    /\ call[p].kind = kind
    /\ trace' = [trace EXCEPT ![p].sessOps = @ + 1, ![p].opUri = path[p]]
    /\ pc' = [pc EXCEPT ![p] = "done"]
    /\ UNCHANGED << newCfg, serial, lastSet, live, linker, protoFunc, cliSessPool, sessCfg, heap, call,
                    path, addr, rerr, cliSess, done, stored, ncalls >>

\* the call goes on to the CliSession: cliSess.<kind>(uri, ...)
Delegate(p, kind) ==
    /\ ~Crashed
    /\ pc[p] = "got"
    /\ call[p].kind = kind
    /\ trace' = [trace EXCEPT ![p].sessOps = @ + 1, ![p].opUri = call[p].uri]
    /\ pc' = [pc EXCEPT ![p] = "done"]
    /\ UNCHANGED << newCfg, serial, lastSet, live, linker, protoFunc, cliSessPool, sessCfg, heap, call,
                    path, addr, rerr, cliSess, done, stored, ncalls >>

\* PullDelegate calling the CliSession again after a failed Pull
PullDelegateRedial(p) ==
    /\ ~Crashed
    /\ pc[p] = "got"
    /\ call[p].kind = "Pull"
    /\ \E e \in SessRerrs :
         /\ result' = [result EXCEPT ![p] =
               [type |-> "PullCmd", peer |-> call[p].client,
                sess |-> cliSess[p], uri |-> call[p].uri, rerr |-> e]]
         /\ trace' = [trace EXCEPT
                         ![p].sessOps = @ + (IF e = Nil THEN 1 ELSE 2),
                         ![p].opUri = call[p].uri]
    /\ pc' = [pc EXCEPT ![p] = "done"]
    /\ UNCHANGED << newCfg, serial, lastSet, live, linker, protoFunc, cliSessPool, sessCfg, heap, call,
                    path, addr, rerr, cliSess, done, stored, ncalls >>

\* Pull, line 146
PullDelegate(p) ==
    /\ Delegate(p, "Pull")
    /\ \E e \in SessRerrs :
         result' = [result EXCEPT ![p] =
             [type |-> "PullCmd", peer |-> call[p].client, sess |-> cliSess[p],
              uri |-> call[p].uri, rerr |-> e]]

\* Push, line 158
PushDelegate(p) ==
    /\ Delegate(p, "Push")
    /\ \E e \in SessRerrs :
         result' = [result EXCEPT ![p] =
             [type |-> "Rerror", peer |-> call[p].client, sess |-> cliSess[p],
              uri |-> call[p].uri, rerr |-> e]]

\* AsyncPull, line 134
AsyncPullDelegate(p) ==
    /\ Delegate(p, "AsyncPull")
    /\ UNCHANGED result

\* getCliSession returned rerr != nil
Fail(p, kind) ==
    /\ ~Crashed
    /\ pc[p] = "rerr"
    /\ call[p].kind = kind
    /\ pc' = [pc EXCEPT ![p] = "done"]
    /\ UNCHANGED << newCfg, serial, lastSet, live, linker, protoFunc, cliSessPool, sessCfg, heap, call,
                    path, addr, rerr, cliSess, stored, ncalls >>

\* PullFail handing back a command that does not carry the error
PullFailNoError(p) ==
    /\ Fail(p, "Pull")
    /\ result' = [result EXCEPT ![p] =
                     NewFakePullCmd(call[p].client, call[p].uri, Nil)]
    /\ UNCHANGED << done, trace >>

\* Pull, lines 143-145
PullFail(p) ==
    /\ Fail(p, "Pull")
    /\ result' = [result EXCEPT ![p] =
                     NewFakePullCmd(call[p].client, call[p].uri, rerr[p])]
    /\ UNCHANGED << done, trace >>

\* Push, lines 155-157
PushFail(p) ==
    /\ Fail(p, "Push")
    /\ result' = [result EXCEPT ![p] = [NoResult EXCEPT !.type = "Rerror",
                                                        !.rerr = rerr[p]]]
    /\ UNCHANGED << done, trace >>

\* AsyncPullFail returning without the send on done
AsyncPullFailSilent(p) ==
    /\ Fail(p, "AsyncPull")
    /\ UNCHANGED << done, trace, result >>

\* AsyncPull, lines 130-133: done <- NewFakePullCmd(...); return
AsyncPullFail(p) ==
    /\ Fail(p, "AsyncPull")
    /\ CanSend(done[p])
    /\ done' = [done EXCEPT ![p] =
                   Send(@, NewFakePullCmd(call[p].client, call[p].uri, rerr[p]))]
    /\ trace' = [trace EXCEPT ![p].sends = @ + 1]
    /\ UNCHANGED result

\* the call has returned; the goroutine is free for its next call
Return(p) ==
    /\ ~Crashed
    /\ pc[p] = "done"
    /\ pc' = [pc EXCEPT ![p] = "idle"]
    /\ call' = [call EXCEPT ![p] = NoCall]
    /\ path' = [path EXCEPT ![p] = << >>]
    /\ addr' = [addr EXCEPT ![p] = ""]
    /\ rerr' = [rerr EXCEPT ![p] = Nil]
    /\ cliSess' = [cliSess EXCEPT ![p] = NoSess]
    /\ result' = [result EXCEPT ![p] = NoResult]
    /\ done' = [done EXCEPT ![p] = NoChan]
    /\ trace' = [trace EXCEPT ![p] = NoTrace]
    /\ UNCHANGED << newCfg, serial, lastSet, live, linker, protoFunc, cliSessPool, sessCfg, heap, stored,
                    ncalls >>

\* AsyncPull is blocked in its send on done
Blocked(p) ==
    /\ pc[p] = "rerr"
    /\ call[p].kind = "AsyncPull"
    /\ ~CanSend(done[p])

\* another goroutine receives from the channel on which p is blocked: it
\* takes the head of the buffer, or parks on the empty channel
Receiver(p) ==
    /\ ~Crashed
    /\ Blocked(p)
    /\ IF done[p].buf # << >>
       THEN done' = [done EXCEPT ![p].buf = Tail(@),
                                 ![p].got = Append(@, Head(done[p].buf))]
       ELSE done' = [done EXCEPT ![p].recv = TRUE]
    /\ UNCHANGED << newCfg, serial, lastSet, live, linker, protoFunc, cliSessPool, sessCfg, heap, pc,
                    call, path, addr, rerr, cliSess, result, trace, stored,
                    ncalls >>

\* SetLinker that also starts the client on an empty pool
SetLinkerResetPool(c, l) ==
    /\ ~Crashed
    /\ linker[c] # l
    /\ linker' = [linker EXCEPT ![c] = l]
    /\ lastSet' = [lastSet EXCEPT ![c] = l]
    /\ cliSessPool' = [cliSessPool EXCEPT ![c] = AtomicMap]
    /\ UNCHANGED << newCfg, serial, live, protoFunc, sessCfg, heap, pc, call, path, addr, rerr,
                    cliSess, result, done, trace, stored, ncalls >>

\* SetLinker that only fills an empty linker field
SetLinkerOnce(c, l) ==
    /\ ~Crashed
    /\ lastSet[c] # l
    /\ linker' = [linker EXCEPT ![c] = IF @ = NilLinker THEN l ELSE @]
    /\ lastSet' = [lastSet EXCEPT ![c] = l]
    /\ UNCHANGED << newCfg, serial, live, protoFunc, cliSessPool, sessCfg, heap, pc, call, path,
                    addr, rerr, cliSess, result, done, trace, stored, ncalls >>

\* SetLinker, lines 122-124
SetLinker(c, l) ==
    /\ ~Crashed
    /\ linker[c] # l
    /\ linker' = [linker EXCEPT ![c] = l]
    /\ lastSet' = [lastSet EXCEPT ![c] = l]
    /\ UNCHANGED << newCfg, serial, live, protoFunc, cliSessPool, sessCfg, heap, pc, call, path,
                    addr, rerr, cliSess, result, done, trace, stored, ncalls >>

ProtoFuncs == {"DefaultProtoFunc", "CustomProtoFunc"}

\* SetProtoFunc, lines 117-119
SetProtoFunc(c, f) ==
    /\ ~Crashed
    /\ protoFunc[c] # f
    /\ protoFunc' = [protoFunc EXCEPT ![c] = f]
    /\ UNCHANGED << newCfg, serial, lastSet, live, linker, cliSessPool, sessCfg, heap, pc, call, path,
                    addr, rerr, cliSess, result, done, trace, stored, ncalls >>

Next ==
    \/ \E p \in Procs : CallPull(p)
    \/ \E p \in Procs : CallPush(p)
    \/ \E p \in Procs : CallAsyncPull(p)
    \/ \E p \in Procs : GetCliSessionLoad(p)
    \/ \E p \in Procs : GetCliSessionStore(p)
    \/ \E p \in Procs : PullDelegate(p)
    \/ \E p \in Procs : PushDelegate(p)
    \/ \E p \in Procs : AsyncPullDelegate(p)
    \/ \E p \in Procs : PullFail(p)
    \/ \E p \in Procs : PushFail(p)
    \/ \E p \in Procs : AsyncPullFail(p)
    \/ \E p \in Procs : Return(p)
    \/ \E p \in Procs : Receiver(p)
    \/ \E c \in live, l \in Linkers : SetLinker(c, l)
    \/ \E c \in live, f \in ProtoFuncs : SetProtoFunc(c, f)

Spec == Init /\ [][Next]_vars

\* one Client, constructed from any of the configurations, whose callers
\* issue their calls one after the other
InitSerial ==
    /\ \E cfg \in CfgInputs : Constructed({1}, [c \in Clients |-> cfg])
    /\ Quiet
    /\ serial = TRUE

SpecSerial == InitSerial /\ [][Next]_vars

\* two Clients constructed, used by a caller that makes one call at a time
InitTwo ==
    /\ Constructed({1, 2}, [c \in Clients |-> ZeroCfg])
    /\ Quiet
    /\ serial = TRUE

SpecTwo == InitTwo /\ [][Next]_vars

\* ------------------------------------------------------------------ helpers
\* the sessions constructed so far for address a by client c
SessionsFor(c, a) == {s \in heap : s.peer = c /\ s.addr = a}

\* p's current call got an address from Select
Resolved(p) == pc[p] \in {"load", "new", "got", "done"} /\ rerr[p] = Nil

\* p's current call got an error from Select
Unresolved(p) == pc[p] \in {"rerr", "done"} /\ rerr[p] # Nil

\* p's current call holds the session getCliSession returned to it
HasSession(p) == pc[p] \in {"got", "done"} /\ rerr[p] = Nil

\* the synthetic failed commands on a channel, queued or already received
FakeCmds(ch) ==
    LET all == ch.got \o ch.buf
    IN  {i \in 1..Len(all) : all[i].type = "FakePullCmd"}

\* s is the part of uri before its first "?" (all of uri when it has none)
IsPathOf(s, uri) ==
    /\ Len(s) <= Len(uri)
    /\ \A i \in 1..Len(s) : s[i] = uri[i] /\ s[i] # "?"
    /\ Len(s) < Len(uri) => uri[Len(s) + 1] = "?"

\* ------------------------------------------------------------------ claims

\* C1: for every client and address, at most one Session is ever constructed
\* (exactly one once a call has resolved to the address and obtained a
\* session), under every interleaving of the calls.
C1_OneSessionPerAddress ==
    /\ \A c \in Clients, a \in Addrs : Cardinality(SessionsFor(c, a)) <= 1
    /\ \A p \in Procs :
         HasSession(p) => Cardinality(SessionsFor(call[p].client, addr[p])) = 1

\* C2: every call resolving to address A on a client is executed on the same
\* Session object: two calls that hold a session for the same client and
\* address hold the same session (the caller that stores second is given the
\* session stored first).
C2_LoserUsesStoredSession ==
    \A p, q \in Procs :
        ( /\ HasSession(p) /\ HasSession(q)
          /\ call[p].client = call[q].client
          /\ addr[p] = addr[q] )
        => cliSess[p] = cliSess[q]

\* C3: when Select returns an error e for a call, the call constructs no
\* Session, invokes no Session operation and stores nothing in the pool, none
\* of its steps changes the pool or the set of sessions, Pull returns a
\* synthetic failed command carrying e and Push returns e itself.
C3_FailedCallTouchesNothing ==
    \A p \in Procs : Unresolved(p) =>
        /\ trace[p].news = 0
        /\ trace[p].stores = 0
        /\ trace[p].sessOps = 0
        /\ cliSess[p] = NoSess
        /\ (pc[p] = "done" /\ call[p].kind = "Pull") =>
               /\ result[p].type = "FakePullCmd"
               /\ result[p].rerr = rerr[p]
               /\ result[p].sess = NoSess
        /\ (pc[p] = "done" /\ call[p].kind = "Push") =>
               /\ result[p].type = "Rerror"
               /\ result[p].rerr = rerr[p]
               /\ result[p].sess = NoSess

C3_FailedCallStep ==
    \A p \in Procs :
        (pc'[p] # pc[p] /\ rerr'[p] # Nil) =>
            /\ cliSessPool' = cliSessPool
            /\ heap' = heap

C3_ResolutionFailureShortCircuit ==
    []C3_FailedCallTouchesNothing /\ [][C3_FailedCallStep]_vars

\* C3 witness: a Pull has returned its failed result on a client whose pool
\* already holds a session.
C3_Witness ==
    \E p \in Procs :
        /\ pc[p] = "done"
        /\ call[p].kind = "Pull"
        /\ rerr[p] = NoRoute
        /\ cliSessPool[call[p].client] # AtomicMap

\* C4: an AsyncPull whose resolution failed is never held up in its send on
\* the completion channel, whatever the channel (unbuffered without a
\* receiver, or buffered and full).
C4_AsyncPullNeverBlocks == \A p \in Procs : ~Blocked(p)

\* C5: an AsyncPull call never produces more than one completion; once it has
\* returned after a failed resolution the Client has put exactly one synthetic
\* failed command on the channel and has not delegated, and once it has
\* returned after a successful resolution the Client has put nothing on the
\* channel and has delegated exactly once to the Session.
C5_ExactlyOneCompletion ==
    \A p \in Procs : call[p].kind = "AsyncPull" =>
        /\ Cardinality(FakeCmds(done[p])) = trace[p].sends
        /\ trace[p].sends + trace[p].sessOps <= 1
        /\ (pc[p] = "done" /\ rerr[p] # Nil) =>
               /\ Cardinality(FakeCmds(done[p])) = 1
               /\ trace[p].sessOps = 0
        /\ (pc[p] = "done" /\ rerr[p] = Nil) =>
               /\ Cardinality(FakeCmds(done[p])) = 0
               /\ trace[p].sessOps = 1

\* C5 witness: an AsyncPull with a failed resolution has returned after its
\* send on a channel that was full when the call began.
C5_Witness ==
    \E p \in Procs :
        /\ call[p].kind = "AsyncPull"
        /\ pc[p] = "done"
        /\ rerr[p] = NoRoute
        /\ done[p].got = << OtherCmd >>

\* C6: Push on a Client without a Linker (or with one that always errors)
\* does not panic and returns the resolution error, and the pool stays empty.
C6_PushWithoutLinkerReturnsError ==
    \A p \in Procs : call[p].kind = "Push" =>
        /\ pc[p] # "panicked"
        /\ (pc[p] = "done" /\ rerr[p] # Nil) =>
               /\ result[p].rerr = rerr[p]
               /\ trace[p].stores = 0

\* C7: the argument handed to Select is the part of the call's uri before its
\* first "?", and the whole uri when it has no "?".
C7_SelectGetsPathOnly ==
    \A p \in Procs : pc[p] # "idle" => IsPathOf(path[p], call[p].uri)

\* C7 witness: a call whose uri has two "?" resolved on the path before the
\* first of them.
C7_Witness ==
    \E p \in Procs :
        /\ call[p].uri = <<"/", "b", "?", "a", "?", "b">>
        /\ Resolved(p)
        /\ path[p] = <<"/", "b">>
        /\ addr[p] = AddrB

\* C8: the keys of a client's pool are exactly the addresses stored by calls
\* that reached the store step; so when two calls resolved to A by a static
\* Linker have completed and no other address was stored, the pool has the
\* single entry A.
C8_PoolKeysAreStoredAddresses ==
    \A c \in Clients :
        /\ DOMAIN cliSessPool[c] = {x.addr : x \in {y \in stored : y.client = c}}
        /\ ( /\ linker[c] = NewStaticLinker(AddrA)
             /\ \A p \in Procs : pc[p] = "done" /\ call[p].client = c
                                 /\ rerr[p] = Nil /\ addr[p] = AddrA
             /\ \A y \in stored : y.client = c => y.addr = AddrA )
           => ( DOMAIN cliSessPool[c] = {AddrA}
                /\ Cardinality(DOMAIN cliSessPool[c]) = 1 )

\* C8 witness: two concurrent calls through a static Linker both missed the
\* pool, both stored, and both have completed.
C8_Witness ==
    /\ linker[1] = NewStaticLinker(AddrA)
    /\ \A p \in Procs : /\ pc[p] = "done"
                        /\ call[p].client = 1
                        /\ addr[p] = AddrA
                        /\ trace[p].stores = 1

\* C9: once the pool maps address A to a session, it maps A to that same
\* session in every later state.
C9_StoredSessionPersists ==
    [][ \A c \in Clients : \A a \in DOMAIN cliSessPool[c] :
            /\ a \in DOMAIN cliSessPool'[c]
            /\ cliSessPool'[c][a] = cliSessPool[c][a] ]_vars

\* C10: no step of Pull, Push, AsyncPull, SetLinker or SetProtoFunc removes an
\* address from a pool.
C10_PoolKeysNeverRemoved ==
    [][ \A c \in Clients : DOMAIN cliSessPool[c] \subseteq DOMAIN cliSessPool'[c]
      ]_vars

\* C10 witness: a pool holding two addresses has been through a SetLinker and
\* a SetProtoFunc.
C10_Witness ==
    /\ DOMAIN cliSessPool[1] = {AddrA, AddrB}
    /\ linker[1] = ErrLinker
    /\ protoFunc[1] = "CustomProtoFunc"

\* C11: a Client constructed with SessMaxQuota <= 0 has pool capacity 100, one
\* constructed with SessMaxIdleDuration <= 0 has idle duration 3 minutes, and
\* every Session a Client creates carries the Client's effective values.
C11_ConfigDefaulting ==
    \A c \in live :
        /\ newCfg[c].arg.SessMaxQuota <= 0 => sessCfg[c].SessMaxQuota = 100
        /\ newCfg[c].arg.SessMaxIdleDuration <= 0 =>
               sessCfg[c].SessMaxIdleDuration = 3
        /\ \A s \in heap : s.peer = c =>
               /\ s.sessMaxQuota = sessCfg[c].SessMaxQuota
               /\ s.sessMaxIdleDuration = sessCfg[c].SessMaxIdleDuration
               /\ newCfg[c].arg.SessMaxQuota <= 0 => s.sessMaxQuota = 100
               /\ newCfg[c].arg.SessMaxIdleDuration <= 0 =>
                      s.sessMaxIdleDuration = 3

\* C11 witness: a Client built with quota -1 and idle duration 0 has created
\* a Session with capacity 100 and idle duration 3.
C11_Witness ==
    /\ newCfg[1].arg.SessMaxQuota = -1
    /\ newCfg[1].arg.SessMaxIdleDuration = 0
    /\ \E s \in heap : /\ s.peer = 1
                       /\ s.sessMaxQuota = 100
                       /\ s.sessMaxIdleDuration = 3

\* C12: whenever a call resolves through a Linker built by NewStaticLinker(A),
\* Select gives address A and no error, whatever the path and however many
\* calls came before.
C12_StaticLinkerSelectsItsAddress ==
    [][ \A p \in Procs :
            ( /\ pc[p] = "idle"
              /\ pc'[p] # "idle"
              /\ linker[call'[p].client].type = "staticLinker" )
            => /\ pc'[p] = "load"
               /\ addr'[p] = linker[call'[p].client].srvAddr
               /\ rerr'[p] = Nil ]_vars

\* C12 witness: the second call, with an empty path, got address A (only the
\* static Linker resolves the empty path).
C12_Witness ==
    /\ ncalls = 2
    /\ \E p \in Procs : /\ pc[p] = "load"
                        /\ path[p] = << >>
                        /\ addr[p] = AddrA
                        /\ rerr[p] = Nil

\* C13: when calls do not overlap, a call whose address is in the pool gets
\* the pooled Session and constructs none (getCliSession constructs only for
\* an address the pool lacks), so each client has constructed one Session per
\* address resolved and stored, and no more.
C13_SequentialGetOrCreate ==
    /\ \A c \in Clients :
         /\ \A a \in Addrs : Cardinality(SessionsFor(c, a)) <= 1
         /\ Cardinality({s \in heap : s.peer = c})
                = Cardinality({x \in stored : x.client = c})
         /\ Cardinality({s \in heap : s.peer = c})
                = Cardinality(DOMAIN cliSessPool[c])
    /\ \A p \in Procs :
         /\ pc[p] = "new" => addr[p] \notin DOMAIN cliSessPool[call[p].client]
         /\ HasSession(p) =>
               /\ [client |-> call[p].client, addr |-> addr[p]] \in stored
               /\ cliSess[p] = cliSessPool[call[p].client][addr[p]]
               /\ trace[p].news <= 1

\* C13 witness: the second of two calls in a row found its address in the
\* pool and completed on the one Session constructed, constructing none.
C13_Witness ==
    /\ serial
    /\ ncalls = 2
    /\ Cardinality(heap) = 1
    /\ \E p \in Procs : /\ pc[p] = "done"
                        /\ rerr[p] = Nil
                        /\ trace[p].news = 0
                        /\ cliSess[p] \in heap

\* C14: a call invokes Select once and no more, and at most one Session
\* operation: one when Select gave an address, whatever the Session
\* returns, and none when Select gave an error.
C14_NoRetries ==
    \A p \in Procs :
        /\ trace[p].selects <= 1
        /\ trace[p].sessOps <= 1
        /\ pc[p] \in {"load", "new", "got", "rerr", "done"} =>
               trace[p].selects = 1
        /\ pc[p] # "done" => trace[p].sessOps = 0
        /\ pc[p] = "done" =>
               trace[p].sessOps = (IF rerr[p] = Nil THEN 1 ELSE 0)

\* C14 witness: a Pull has returned the Session's timeout after one Select and
\* one Session operation.
C14_Witness ==
    \E p \in Procs :
        /\ pc[p] = "done"
        /\ call[p].kind = "Pull"
        /\ result[p].rerr = Timeout
        /\ trace[p].selects = 1
        /\ trace[p].sessOps = 1

\* C17: the uri handed to the Session operation, and the uri in the synthetic
\* failed command of Pull and AsyncPull, is the caller's uri with its query;
\* only Select sees the stripped path.
C17_QueryKeptOutsideSelect ==
    \A p \in Procs :
        /\ (pc[p] = "done" /\ rerr[p] = Nil) => trace[p].opUri = call[p].uri
        /\ (pc[p] = "done" /\ rerr[p] # Nil /\ call[p].kind = "Pull") =>
               result[p].uri = call[p].uri
        /\ LET all == done[p].got \o done[p].buf
           IN  \A i \in FakeCmds(done[p]) : all[i].uri = call[p].uri
        /\ pc[p] # "idle" => path[p] = StripQuery(call[p].uri)

\* C17 witness: one call with a query has been delegated and another with a
\* query has returned its synthetic failed command.
C17_Witness ==
    \E p, q \in Procs :
        /\ pc[p] = "done" /\ rerr[p] = Nil
        /\ call[p].uri = <<"/", "b", "?", "a", "?", "b">>
        /\ path[p] = <<"/", "b">>
        /\ trace[p].opUri = call[p].uri
        /\ pc[q] = "done" /\ rerr[q] = NoRoute
        /\ call[q].kind = "Pull"
        /\ call[q].uri = <<"?", "a">>
        /\ path[q] = << >>
        /\ result[q].uri = call[q].uri

\* C18: the session a pool holds under key A was constructed with address A
\* (by the client owning the pool), and the session getCliSession returns to
\* a call is bound to the address Select returned for that call.
C18_PoolKeyIsSessionAddress ==
    /\ \A c \in Clients : \A a \in DOMAIN cliSessPool[c] :
           /\ Load(cliSessPool[c], a).value.addr = a
           /\ Load(cliSessPool[c], a).value.peer = c
           /\ Load(cliSessPool[c], a).value \in heap
    /\ \A p \in Procs : HasSession(p) =>
           /\ cliSess[p].addr = addr[p]
           /\ cliSess[p].peer = call[p].client
           /\ cliSess[p] \in heap

\* C18 witness: a pool holds sessions under two keys, and a call has been
\* returned the session under the second key.
C18_Witness ==
    /\ DOMAIN cliSessPool[1] = {AddrA, AddrB}
    /\ \E p \in Procs :
           /\ HasSession(p)
           /\ addr[p] = AddrB
           /\ cliSess[p] = cliSessPool[1][AddrB]

\* C19: check leaves a positive SessMaxQuota and a positive
\* SessMaxIdleDuration as they are, changes no other field, returns nil, and
\* a second check of the checked configuration changes nothing.
C19_CheckPreservesAndIsIdempotent ==
    \A c \in live :
        LET in == newCfg[c].arg
            out == newCfg[c].cfg
        IN  /\ in.SessMaxQuota > 0 => out.SessMaxQuota = in.SessMaxQuota
            /\ in.SessMaxIdleDuration > 0 =>
                   out.SessMaxIdleDuration = in.SessMaxIdleDuration
            /\ DOMAIN out = DOMAIN in
            /\ out.RedialTimes = in.RedialTimes
            /\ newCfg[c].err = Nil
            /\ check(out).cfg = out
            /\ check(out).err = Nil

\* C19 witness: NewClient has checked a configuration with positive quota and
\* idle duration and a negative RedialTimes.
C19_Witness ==
    /\ 1 \in live
    /\ newCfg[1].arg = [RedialTimes |-> -1, SessMaxQuota |-> 5,
                        SessMaxIdleDuration |-> 7]
    /\ newCfg[1].cfg = newCfg[1].arg

\* C15: a SetLinker(L2) step makes L2 the Client's linker and leaves the pool
\* and the sessions as they were; a call that starts afterwards gets from
\* Select what the last linker set returns for its path; and a call whose
\* address is already in the pool gets the session stored there, nothing
\* being constructed or stored.
C15_SetLinkerSwapsResolverOnly ==
    [][ \A c \in live :
          /\ lastSet'[c] # lastSet[c] =>
                 /\ linker'[c] = lastSet'[c]
                 /\ cliSessPool' = cliSessPool
                 /\ heap' = heap
          /\ \A p \in Procs :
                 ( /\ pc[p] = "idle"
                   /\ pc'[p] \in {"load", "rerr"}
                   /\ call'[p].client = c ) =>
                     /\ addr'[p] = Select(lastSet[c], path'[p]).addr
                     /\ rerr'[p] = Select(lastSet[c], path'[p]).rerr
          /\ \A p \in Procs :
                 ( /\ pc[p] = "load"
                   /\ pc'[p] = "got"
                   /\ call[p].client = c ) =>
                     /\ cliSess'[p] = cliSessPool[c][addr[p]]
                     /\ cliSessPool' = cliSessPool
                     /\ heap' = heap ]_vars

\* C15 witness: a call resolved by the static Linker (the only one giving an
\* address for "?a") constructed the session for A; the Linker has since been
\* replaced by PathLinker, the session is still in the pool, and a call for
\* "/a" was handed that session without constructing one.
C15_Witness ==
    /\ linker[1] = PathLinker
    /\ lastSet[1] = PathLinker
    /\ \E p, q \in Procs :
           /\ pc[q] = "done"
           /\ call[q].uri = <<"?", "a">>
           /\ addr[q] = AddrA
           /\ trace[q].news = 1
           /\ HasSession(p)
           /\ call[p].uri = <<"/", "a">>
           /\ addr[p] = AddrA
           /\ trace[p].news = 0
           /\ cliSess[p] = cliSess[q]
           /\ cliSessPool[1][AddrA] = cliSess[q]

\* C16: a Client's pool changes only in the store step of a call made on that
\* Client, so no operation on one Client changes the pool of another; every
\* session in a pool, and every session handed to a call, belongs to the
\* Client concerned, so two Clients never share a Session, whatever the
\* address.
C16_PoolsScopedToClient ==
    [][ /\ \A c \in live :
              cliSessPool'[c] # cliSessPool[c] =>
                  \E p \in Procs : /\ call[p].client = c
                                   /\ pc[p] = "new"
                                   /\ pc'[p] = "got"
        /\ \A c \in live : \A a \in DOMAIN cliSessPool'[c] :
              cliSessPool'[c][a].peer = c
        /\ \A c1, c2 \in live : \A a \in Addrs :
              ( /\ c1 # c2
                /\ a \in DOMAIN cliSessPool'[c1]
                /\ a \in DOMAIN cliSessPool'[c2] ) =>
                  cliSessPool'[c1][a] # cliSessPool'[c2][a]
        /\ \A p \in Procs :
              (pc'[p] \in {"got", "done"} /\ rerr'[p] = Nil) =>
                  /\ cliSess'[p].peer = call'[p].client
                  /\ \A c \in live \ {call'[p].client} :
                         \A a \in DOMAIN cliSessPool'[c] :
                             cliSessPool'[c][a] # cliSess'[p] ]_vars

\* C16 witness: two Clients with different Linkers each hold a session for
\* address A, the two sessions differ, and a call on the second Client has been
\* handed the second Client's session.
C16_Witness ==
    /\ live = {1, 2}
    /\ linker[1] = NewStaticLinker(AddrA)
    /\ linker[2] = PathLinker
    /\ DOMAIN cliSessPool[1] = {AddrA}
    /\ DOMAIN cliSessPool[2] = {AddrA}
    /\ cliSessPool[1][AddrA] # cliSessPool[2][AddrA]
    /\ \E p \in Procs :
           /\ HasSession(p)
           /\ call[p].client = 2
           /\ addr[p] = AddrA
           /\ cliSess[p] = cliSessPool[2][AddrA]

====
